---- MODULE Spec2Model ----
(***************************************************************************)
(* Model of src/model_trainers/classifier/model.py: the word-to-subword    *)
(* label alignment (_tokenize_data.tokenize_and_align), the training loop  *)
(* with its per-epoch evaluation pass (train_classifier) and the reporting *)
(* evaluation (evaluate_classifier).                                       *)
(*                                                                         *)
(* Python lists are sequences (index i of the code is index i+1 here).     *)
(* Tensors of shape (1, T, L) are sequences of T rows of length L.         *)
(***************************************************************************)
EXTENDS Integers, Sequences, FiniteSets, TLC

(* ------------------------------ bounds -------------------------------- *)
MaxLabels == 2      \* label_count ranges over 1..MaxLabels
MaxWords == 2       \* words per sentence in the alignment runs
MaxTokens == 4      \* tokens per sentence as the tokenizer maps them
MaxAnyTokens == 3   \* tokens per sentence in an arbitrary map
MaxBatches == 2     \* sentences in the training split
MaxEpochs == 2      \* num_epochs of the training runs
MaxRows == 2        \* rows of an arbitrary (not aligned) label matrix

(* ------------------------- encodings of values ------------------------ *)
None == -1          \* Python's None as a word index / previous_word_idx
IGNORE == -100      \* the ignore marker written into label rows
NaN == -999         \* float nan (mean of an empty loss tensor)
HeavisideValues == 0  \* torch.tensor([0.0]) handed to heaviside

VARIABLES
    \* tokenize_and_align, one sentence
    word_ids, label, label_count, label_all_tokens, label_ids, aligned,
    \* train_classifier / evaluate_classifier
    train_data, eval_data, num_epochs, num_training_steps,
    pc, epoch, todo, mode,
    labels, logits, ignore_index, flat_outputs, flat_labels,
    loss, grads, params, opt_steps, sched_steps,
    running_loss, epoch_loss, progress,
    pred, preds, true_labels, inputs, saved,
    \* observation of the run: operations of the current training step
    \* in the order they ran, and the step losses of the current epoch
    ops, step_losses

align_vars == <<word_ids, label, label_all_tokens, label_ids, aligned>>
train_vars == <<train_data, eval_data, num_epochs, num_training_steps,
                pc, epoch, todo, mode,
                labels, logits, ignore_index, flat_outputs, flat_labels,
                loss, grads, params, opt_steps, sched_steps,
                running_loss, epoch_loss, progress,
                pred, preds, true_labels, inputs, saved, ops, step_losses>>
vars == <<align_vars, label_count, train_vars>>

(* ===================== _tokenize_data (lines 206-246) ================== *)

\* [-100 for l in range(label_count)]
IgnoreRow(L) == [i \in 1..L |-> IGNORE]

\* [1.0 if l in label[word_idx] else 0.0 for l in range(label_count)]
WordRow(lab, word_idx, L) ==
    [i \in 1..L |-> IF (i - 1) \in lab[word_idx + 1] THEN 1 ELSE 0]

\* mutants of TokenRow
TokenRow_MixedContinuation(word_idx, previous_word_idx, lab, L, all_tokens) ==
    IF word_idx = None THEN IgnoreRow(L)
    ELSE IF word_idx # previous_word_idx THEN WordRow(lab, word_idx, L)
    ELSE [i \in 1..L |-> IF i = 1 THEN IGNORE ELSE WordRow(lab, word_idx, L)[i]]

TokenRow_PolicySwapped(word_idx, previous_word_idx, lab, L, all_tokens) ==
    IF word_idx = None THEN IgnoreRow(L)
    ELSE IF word_idx # previous_word_idx THEN WordRow(lab, word_idx, L)
    ELSE IF all_tokens THEN IgnoreRow(L) ELSE WordRow(lab, word_idx, L)

TokenRow_EmptyIgnored(word_idx, previous_word_idx, lab, L, all_tokens) ==
    IF word_idx = None \/ lab[word_idx + 1] = {} THEN IgnoreRow(L)
    ELSE IF word_idx # previous_word_idx THEN WordRow(lab, word_idx, L)
    ELSE IF all_tokens THEN WordRow(lab, word_idx, L) ELSE IgnoreRow(L)

\* body of the loop over word_ids: the row appended for one token
TokenRow(word_idx, previous_word_idx, lab, L, all_tokens) ==
    IF word_idx = None THEN IgnoreRow(L)
    ELSE IF word_idx # previous_word_idx THEN WordRow(lab, word_idx, L)
    ELSE IF all_tokens THEN WordRow(lab, word_idx, L) ELSE IgnoreRow(L)

\* the loop over word_ids, previous_word_idx starting at None and set to
\* word_idx after every token; n is the number of tokens consumed
RECURSIVE LabelIdsLoop(_, _, _, _, _)
LabelIdsLoop(wids, lab, L, all_tokens, n) ==
    IF n = 0 THEN << >>
    ELSE Append(LabelIdsLoop(wids, lab, L, all_tokens, n - 1),
                TokenRow(wids[n], IF n = 1 THEN None ELSE wids[n - 1],
                         lab, L, all_tokens))

\* label_ids of one sentence
tokenize_and_align(wids, lab, L, all_tokens) ==
    LabelIdsLoop(wids, lab, L, all_tokens, Len(wids))

(* inputs of the alignment *)
SeqsUpTo(S, n) == UNION {[1..k -> S] : k \in 0..n}

\* examples["verbnet"][i]: per word, the set of its active label indices
WordLabels(W, L) == [1..W -> SUBSET (0..(L - 1))]

\* any map: each token carries a word index below W or None
AnyWordIds(W) == SeqsUpTo({None} \cup (0..(W - 1)), MaxAnyTokens)

IsNonDecreasing(s) == \A i \in 1..(Len(s) - 1) : s[i] <= s[i + 1]

\* word_ids() of the fast tokenizer for pre-split words: <s>, the pieces of
\* the words in sentence order (a word's pieces are consecutive), </s>
TokenizerWordIds(W) ==
    {<<None>> \o b \o <<None>> :
        b \in {s \in SeqsUpTo(0..(W - 1), MaxTokens - 2) : IsNonDecreasing(s)}}

(* ============ masking, flattening, thresholding (both loops) =========== *)

RECURSIVE SumSeq(_)
SumSeq(s) == IF s = << >> THEN 0 ELSE Head(s) + SumSeq(Tail(s))

\* .int(): truncation toward zero of the quotient a / n
TruncDiv(a, n) == IF a >= 0 THEN a \div n ELSE -((-a) \div n)

\* mutant of IgnoreIndex: looks at the first entry of each row only
IgnoreIndex_FirstEntry(lbls) == [t \in 1..Len(lbls) |-> lbls[t][1]]

\* labels.mean(-1).squeeze().int(): per row, the mean cast to an integer
IgnoreIndex(lbls) ==
    [t \in 1..Len(lbls) |-> TruncDiv(SumSeq(lbls[t]), Len(lbls[t]))]

\* x.squeeze()[ignore_index != -100]: the rows whose mask entry is true,
\* in order
RECURSIVE SelectRows(_, _)
SelectRows(rows, idx) ==
    IF rows = << >> THEN << >>
    ELSE IF Head(idx) # IGNORE
         THEN <<Head(rows)>> \o SelectRows(Tail(rows), Tail(idx))
         ELSE SelectRows(Tail(rows), Tail(idx))

\* mutant of heaviside: the boundary value counts as 1
heaviside_BoundaryOne(x, values) == IF x < 0 THEN 0 ELSE 1

\* torch.heaviside(input, values): 0 below zero, values at zero, 1 above
heaviside(x, values) == IF x < 0 THEN 0 ELSE IF x = 0 THEN values ELSE 1

\* flat_outputs.heaviside(torch.tensor([0.0])).int().tolist()
Threshold(rows) ==
    [r \in 1..Len(rows) |->
        [i \in 1..Len(rows[r]) |-> heaviside(rows[r][i], HeavisideValues)]]

\* utils.multi_hot_vector_to_class_vector: per row, the indices set to 1
multi_hot_vector_to_class_vector(rows) ==
    [r \in 1..Len(rows) |-> {i - 1 : i \in {j \in 1..Len(rows[r]) : rows[r][j] = 1}}]

\* outputs.logits of the encoder for T tokens and L labels: a sample of the
\* matrices it can return, with negative, zero and positive entries
EncoderOutputs(T, L) ==
    {[t \in 1..T |-> [i \in 1..L |-> ((t + i + k) % 3) - 1]] : k \in 0..2}

\* loss_fct(flat_outputs, flat_labels), mean reduction: nan over no rows,
\* otherwise some positive value (two are sampled)
LossValues(fo, fl) == IF Len(fo) = 0 THEN {NaN} ELSE {1, 2}

\* float addition and multiplication by labels.size(0), nan absorbing
AddLoss(a, b) == IF a = NaN \/ b = NaN THEN NaN ELSE a + b
ScaleLoss(a, n) == IF a = NaN THEN NaN ELSE a * n

\* labels.size(0): the batch dimension, batch_size=1
BatchSize == 1

(* ========================= datasets of the runs ======================== *)

\* dataset["train"].features["verbnet"].feature.feature.names of the sample
\* corpus
LabelList == <<"AGENT", "THEME", "LOCATION">>

\* sample sentences: examples["tok"] abstracted to the tokenizer's word_ids,
\* examples["verbnet"] as the per-word sets of label indices
Corpus ==
    << [word_ids |-> <<None, None>>, verbnet |-> << >>],
       [word_ids |-> <<None, 0, 0, 1, None>>, verbnet |-> <<{0}, {}>>],
       [word_ids |-> <<None, 0, None>>, verbnet |-> <<{1, 2}>>] >>

\* one row of the tokenized dataset; _tokenize_data is called without
\* label_all_tokens, which defaults to True
TokenizedExample(k) ==
    [input_text |-> k,
     labels |-> tokenize_and_align(Corpus[k].word_ids, Corpus[k].verbnet,
                                   Len(LabelList), TRUE)]

TokenizedCorpus == {TokenizedExample(k) : k \in 1..Len(Corpus)}

NonEmptySeqsUpTo(S, n) == UNION {[1..k -> S] : k \in 1..n}

\* label matrices over {0, 1, IGNORE} that no alignment need have produced
AnyLabelMatrices(L) ==
    NonEmptySeqsUpTo([1..L -> {0, 1, IGNORE}], MaxRows)

(* ============================ initial states =========================== *)

AlignIdle ==
    /\ word_ids = << >> /\ label = << >> /\ label_all_tokens = TRUE
    /\ label_ids = << >> /\ aligned = FALSE

\* loop state of train_classifier / evaluate_classifier before any batch
LoopIdle ==
    /\ epoch = 0 /\ todo = {} /\ mode = "eval"
    /\ labels = << >> /\ logits = << >> /\ ignore_index = << >>
    /\ flat_outputs = << >> /\ flat_labels = << >>
    /\ loss = 0 /\ grads = FALSE /\ params = 0
    /\ opt_steps = 0 /\ sched_steps = 0
    /\ running_loss = 0 /\ epoch_loss = <<0, 1>> /\ progress = 0
    /\ pred = << >> /\ preds = << >> /\ true_labels = << >>
    /\ inputs = << >> /\ saved = FALSE
    /\ ops = << >> /\ step_losses = << >>

\* state of train_classifier after lines 28-65, before the first epoch;
\* from_pretrained hands the model over in inference mode
TrainStart(train, test, L, N) ==
    /\ label_count = L
    /\ train_data = train /\ eval_data = test
    /\ num_epochs = N
    /\ num_training_steps = N * Len(train)
    /\ pc = "epoch"
    /\ LoopIdle

\* the training run on splits drawn from the tokenized sample corpus
Init ==
    /\ AlignIdle
    /\ \E train \in NonEmptySeqsUpTo(TokenizedCorpus, MaxBatches),
          test \in NonEmptySeqsUpTo(TokenizedCorpus, 1) :
            TrainStart(train, test, Len(LabelList), MaxEpochs)

(* ===================== train_classifier (lines 22-143) ================= *)

step_vars == <<labels, logits, ignore_index, flat_outputs, flat_labels>>
data_vars == <<label_count, train_data, eval_data, num_epochs,
               num_training_steps>>
optim_vars == <<grads, params, opt_steps, sched_steps>>
eval_vars == <<pred, preds, true_labels, inputs>>

\* mutant of StartEpoch: model.train() is left out
StartEpoch_NoTrainMode ==
    /\ pc = "epoch" /\ epoch < num_epochs
    /\ todo' = 1..Len(train_data)
    /\ step_losses' = << >>
    /\ pc' = "fetch"
    /\ UNCHANGED <<align_vars, data_vars, step_vars, optim_vars, eval_vars,
                   mode, epoch, loss, running_loss, epoch_loss, progress,
                   saved, ops>>

\* lines 67-69: the next epoch begins, model.train(); the shuffled loader
\* will yield every training batch once
StartEpoch ==
    /\ pc = "epoch" /\ epoch < num_epochs
    /\ mode' = "train"
    /\ todo' = 1..Len(train_data)
    /\ step_losses' = << >>
    /\ pc' = "fetch"
    /\ UNCHANGED <<align_vars, data_vars, step_vars, optim_vars, eval_vars,
                   epoch, loss, running_loss, epoch_loss, progress,
                   saved, ops>>

\* lines 71-78: the loader yields a batch not yet seen in this epoch,
\* running_loss is set to 0.0, labels are popped, forward pass
TrainFetch ==
    /\ pc = "fetch" /\ todo # {}
    /\ \E b \in todo :
        /\ todo' = todo \ {b}
        /\ labels' = train_data[b].labels
        /\ \E out \in EncoderOutputs(Len(train_data[b].labels), label_count) :
              logits' = out
    /\ running_loss' = 0
    /\ ops' = <<"forward">>
    /\ pc' = "mask"
    /\ UNCHANGED <<align_vars, data_vars, optim_vars, eval_vars,
                   ignore_index, flat_outputs, flat_labels,
                   mode, epoch, loss, epoch_loss, progress, saved,
                   step_losses>>

\* lines 80-86: scored mask, flattened logits and labels
TrainMask ==
    /\ pc = "mask"
    /\ ignore_index' = IgnoreIndex(labels)
    /\ flat_outputs' = SelectRows(logits, IgnoreIndex(labels))
    /\ flat_labels' = SelectRows(labels, IgnoreIndex(labels))
    /\ pc' = "loss"
    /\ UNCHANGED <<align_vars, data_vars, optim_vars, eval_vars,
                   labels, logits, todo, mode, epoch, loss, running_loss,
                   epoch_loss, progress, saved, ops, step_losses>>

\* line 88: loss = loss_fct(flat_outputs, flat_labels)
TrainLoss ==
    /\ pc = "loss"
    /\ \E v \in LossValues(flat_outputs, flat_labels) : loss' = v
    /\ ops' = Append(ops, "loss")
    /\ pc' = "backward"
    /\ UNCHANGED <<align_vars, data_vars, step_vars, optim_vars, eval_vars,
                   todo, mode, epoch, running_loss, epoch_loss, progress,
                   saved, step_losses>>

\* line 89: loss.backward()
TrainBackward ==
    /\ pc = "backward"
    /\ grads' = TRUE
    /\ ops' = Append(ops, "backward")
    /\ pc' = "optimizer"
    /\ UNCHANGED <<align_vars, data_vars, step_vars, eval_vars,
                   params, opt_steps, sched_steps,
                   todo, mode, epoch, loss, running_loss, epoch_loss,
                   progress, saved, step_losses>>

\* mutant of OptimizerStep: the step also clears the gradients and the
\* schedule is never advanced
OptimizerStep_NoSchedule ==
    /\ pc = "optimizer"
    /\ params' = params + 1
    /\ opt_steps' = opt_steps + 1
    /\ grads' = FALSE
    /\ ops' = Append(ops, "optimizer.step")
    /\ pc' = "accumulate"
    /\ UNCHANGED <<align_vars, data_vars, step_vars, eval_vars,
                   sched_steps, todo, mode, epoch, loss, running_loss,
                   epoch_loss, progress, saved, step_losses>>

\* line 91: optimizer.step() writes the parameters
OptimizerStep ==
    /\ pc = "optimizer"
    /\ params' = params + 1
    /\ opt_steps' = opt_steps + 1
    /\ ops' = Append(ops, "optimizer.step")
    /\ pc' = "scheduler"
    /\ UNCHANGED <<align_vars, data_vars, step_vars, eval_vars,
                   grads, sched_steps, todo, mode, epoch, loss, running_loss,
                   epoch_loss, progress, saved, step_losses>>

\* line 92: lr_scheduler.step()
SchedulerStep ==
    /\ pc = "scheduler"
    /\ sched_steps' = sched_steps + 1
    /\ ops' = Append(ops, "lr_scheduler.step")
    /\ pc' = "zero_grad"
    /\ UNCHANGED <<align_vars, data_vars, step_vars, eval_vars,
                   grads, params, opt_steps, todo, mode, epoch, loss,
                   running_loss, epoch_loss, progress, saved, step_losses>>

\* line 93: optimizer.zero_grad()
ZeroGrad ==
    /\ pc = "zero_grad"
    /\ grads' = FALSE
    /\ ops' = Append(ops, "zero_grad")
    /\ pc' = "accumulate"
    /\ UNCHANGED <<align_vars, data_vars, step_vars, eval_vars,
                   params, opt_steps, sched_steps, todo, mode, epoch, loss,
                   running_loss, epoch_loss, progress, saved, step_losses>>

\* lines 95-96: running_loss += loss.item() * labels.size(0)
Accumulate ==
    /\ pc = "accumulate"
    /\ running_loss' = AddLoss(running_loss, ScaleLoss(loss, BatchSize))
    /\ step_losses' = Append(step_losses, ScaleLoss(loss, BatchSize))
    /\ progress' = progress + 1
    /\ pc' = "fetch"
    /\ UNCHANGED <<align_vars, data_vars, step_vars, optim_vars, eval_vars,
                   todo, mode, epoch, loss, epoch_loss, saved, ops>>

\* lines 98-104: the loader is exhausted; epoch_loss (kept as the pair
\* numerator, denominator), model.eval(), empty preds and true_labels
EndTrainLoop ==
    /\ pc = "fetch" /\ todo = {}
    /\ epoch_loss' = <<running_loss, Len(train_data)>>
    /\ mode' = "eval"
    /\ preds' = << >> /\ true_labels' = << >>
    /\ todo' = 1..Len(eval_data)
    /\ pc' = "eval"
    /\ UNCHANGED <<align_vars, data_vars, step_vars, optim_vars,
                   pred, inputs, epoch, loss, running_loss, progress, saved,
                   ops, step_losses>>

\* lines 106-126: one batch of the per-epoch evaluation pass
EvalStep ==
    /\ pc = "eval" /\ todo # {}
    /\ \E b \in todo :
        /\ todo' = todo \ {b}
        /\ labels' = eval_data[b].labels
        /\ \E out \in EncoderOutputs(Len(eval_data[b].labels), label_count) :
            /\ logits' = out
            /\ ignore_index' = IgnoreIndex(labels')
            /\ flat_outputs' = SelectRows(out, IgnoreIndex(labels'))
            /\ flat_labels' = SelectRows(labels', IgnoreIndex(labels'))
        /\ pred' = Threshold(flat_outputs')
        /\ preds' = preds \o pred'
        /\ true_labels' = true_labels \o flat_labels'
    /\ UNCHANGED <<align_vars, data_vars, optim_vars, inputs,
                   pc, mode, epoch, loss, running_loss, epoch_loss,
                   progress, saved, ops, step_losses>>

\* lines 131-137: the evaluation loader is exhausted, the report is written
\* and the epoch ends
EvalReport ==
    /\ pc = "eval" /\ todo = {}
    /\ epoch' = epoch + 1
    /\ pc' = "epoch"
    /\ UNCHANGED <<align_vars, data_vars, step_vars, optim_vars, eval_vars,
                   todo, mode, loss, running_loss, epoch_loss, progress,
                   saved, ops, step_losses>>

\* lines 139-143: all epochs are done, the model is saved
Finish ==
    /\ pc = "epoch" /\ epoch = num_epochs
    /\ saved' = TRUE
    /\ pc' = "done"
    /\ UNCHANGED <<align_vars, data_vars, step_vars, optim_vars, eval_vars,
                   todo, mode, epoch, loss, running_loss, epoch_loss,
                   progress, ops, step_losses>>

(* =================== evaluate_classifier (lines 146-203) =============== *)

\* lines 152-175: the saved model is loaded, model.eval(), empty lists
EvaluateStart ==
    /\ pc = "done"
    /\ mode' = "eval"
    /\ preds' = << >> /\ true_labels' = << >> /\ inputs' = << >>
    /\ progress' = 0
    /\ todo' = 1..Len(eval_data)
    /\ pc' = "report"
    /\ UNCHANGED <<align_vars, data_vars, step_vars, optim_vars,
                   pred, epoch, loss, running_loss, epoch_loss, saved,
                   ops, step_losses>>

\* the next batch of a loader with shuffle=False
NextInOrder(S) == CHOOSE b \in S : \A c \in S : b <= c

\* lines 177-199: one batch of the reporting evaluation
EvaluateStep ==
    /\ pc = "report" /\ todo # {}
    /\ LET b == NextInOrder(todo) IN
        /\ todo' = todo \ {b}
        /\ labels' = eval_data[b].labels
        /\ inputs' = Append(inputs, eval_data[b].input_text)
        /\ \E out \in EncoderOutputs(Len(eval_data[b].labels), label_count) :
            /\ logits' = out
            /\ ignore_index' = IgnoreIndex(labels')
            /\ flat_outputs' = SelectRows(out, IgnoreIndex(labels'))
            /\ flat_labels' = SelectRows(labels', IgnoreIndex(labels'))
        /\ pred' = Threshold(flat_outputs')
        /\ preds' = Append(preds, multi_hot_vector_to_class_vector(pred'))
        /\ true_labels' =
              Append(true_labels, multi_hot_vector_to_class_vector(flat_labels'))
    /\ progress' = progress + 1
    /\ UNCHANGED <<align_vars, data_vars, optim_vars,
                   pc, mode, epoch, loss, running_loss, epoch_loss,
                   saved, ops, step_losses>>

\* lines 201-203: the collected texts, gold and predicted sets are handed
\* to evaluate_model
EvaluateFinish ==
    /\ pc = "report" /\ todo = {}
    /\ pc' = "reported"
    /\ UNCHANGED <<align_vars, data_vars, step_vars, optim_vars, eval_vars,
                   todo, mode, epoch, loss, running_loss, epoch_loss,
                   progress, saved, ops, step_losses>>

Next ==
    \/ StartEpoch \/ TrainFetch \/ TrainMask \/ TrainLoss \/ TrainBackward
    \/ OptimizerStep \/ SchedulerStep \/ ZeroGrad \/ Accumulate
    \/ EndTrainLoop \/ EvalStep \/ EvalReport \/ Finish
    \/ EvaluateStart \/ EvaluateStep \/ EvaluateFinish

Spec == Init /\ [][Next]_vars

\* the run is a sequential program: a step that can be taken is taken
FairSpec == Spec /\ WF_vars(Next)

(* ================== runs of the alignment on its own =================== *)

\* tokenize_and_align on one sentence (lines 215-233)
AlignSentence ==
    /\ pc = "tokenize" /\ ~aligned
    /\ label_ids' = tokenize_and_align(word_ids, label, label_count,
                                       label_all_tokens)
    /\ aligned' = TRUE
    /\ UNCHANGED <<word_ids, label, label_all_tokens, label_count, train_vars>>

AlignStart(wids, lab, L, all_tokens) ==
    /\ word_ids = wids /\ label = lab /\ label_count = L
    /\ label_all_tokens = all_tokens
    /\ label_ids = << >> /\ aligned = FALSE
    /\ train_data = << >> /\ eval_data = << >>
    /\ num_epochs = 0 /\ num_training_steps = 0
    /\ pc = "tokenize"
    /\ LoopIdle

\* sentences as the tokenizer maps them, both continuation policies
InitAlign ==
    \E W \in 0..MaxWords, L \in 1..MaxLabels, all_tokens \in BOOLEAN :
        \E wids \in TokenizerWordIds(W), lab \in WordLabels(W, L) :
            AlignStart(wids, lab, L, all_tokens)

SpecAlign == InitAlign /\ [][AlignSentence]_vars

\* every map from tokens to a word index or None
InitAlignAny ==
    \E W \in 0..MaxWords, L \in 1..MaxLabels, all_tokens \in BOOLEAN :
        \E wids \in AnyWordIds(W), lab \in WordLabels(W, L) :
            AlignStart(wids, lab, L, all_tokens)

SpecAlignAny == InitAlignAny /\ [][AlignSentence]_vars

(* ========= the loops on label matrices of any content ================== *)

Malformed(m) == [input_text |-> 0, labels |-> m]

\* the masking of each of the three loops applied to one label matrix
InitMask ==
    /\ AlignIdle
    /\ \E L \in 1..MaxLabels : \E m \in AnyLabelMatrices(L) :
        /\ label_count = L
        /\ num_epochs = 1 /\ num_training_steps = 1
        /\ epoch = 0 /\ mode = "eval"
        /\ ignore_index = << >> /\ flat_outputs = << >> /\ flat_labels = << >>
        /\ loss = 0 /\ grads = FALSE /\ params = 0
        /\ opt_steps = 0 /\ sched_steps = 0
        /\ running_loss = 0 /\ epoch_loss = <<0, 1>> /\ progress = 0
        /\ pred = << >> /\ preds = << >> /\ true_labels = << >>
        /\ inputs = << >> /\ saved = FALSE
        /\ ops = << >> /\ step_losses = << >>
        /\ \/ /\ pc = "mask"
              /\ train_data = <<Malformed(m)>> /\ eval_data = << >>
              /\ todo = {}
              /\ labels = m
              /\ logits \in EncoderOutputs(Len(m), L)
           \/ /\ pc \in {"eval", "report"}
              /\ train_data = << >> /\ eval_data = <<Malformed(m)>>
              /\ todo = {1}
              /\ labels = << >> /\ logits = << >>

SpecMask == InitMask /\ [][TrainMask \/ EvalStep \/ EvaluateStep]_vars

\* the training run on a split holding one label matrix of any content
InitMixed ==
    /\ AlignIdle
    /\ \E L \in 1..MaxLabels :
        \E m \in AnyLabelMatrices(L) :
            TrainStart(<<Malformed(m)>>,
                       <<[input_text |-> 1,
                          labels |-> tokenize_and_align(<<None, 0, None>>,
                                                        <<{0}>>, L, TRUE)]>>,
                       L, MaxEpochs)

SpecMixed == InitMixed /\ [][Next]_vars

(* =============================== claims ================================ *)

RowAllIgnore(row) == \A i \in 1..Len(row) : row[i] = IGNORE
RowAllBinary(row) == \A i \in 1..Len(row) : row[i] \in {0, 1}
RowValid(row) == RowAllIgnore(row) \/ RowAllBinary(row)
Tokens == 1..Len(word_ids)
HasWord(t) == word_ids[t] # None
\* position i of the row is 1 iff label i-1 is active for the word of token t
RowOfWord(t, row) ==
    \A i \in 1..label_count :
        row[i] = (IF (i - 1) \in label[word_ids[t] + 1] THEN 1 ELSE 0)
FirstOfWord(t) == \A s \in Tokens : s < t => word_ids[s] # word_ids[t]

\* C1: every row produced by tokenize_and_align has length L and is either
\* entirely IGNORE or entirely in {0, 1}, for every alignment map and both
\* continuation policies
C1_RowValidity ==
    aligned =>
        /\ Len(label_ids) = Len(word_ids)
        /\ \A t \in Tokens :
            /\ Len(label_ids[t]) = label_count
            /\ RowValid(label_ids[t])

\* a sentence aligned under the suppression policy, holding a structural
\* token, a first piece and a continuation piece
C1_Witness ==
    /\ aligned /\ ~label_all_tokens /\ label_count >= 2
    /\ \E t \in Tokens : ~HasWord(t)
    /\ \E t \in Tokens : HasWord(t) /\ RowAllBinary(label_ids[t])
    /\ \E t \in Tokens : HasWord(t) /\ RowAllIgnore(label_ids[t])

\* C2: with label_all_tokens, all tokens of one word carry the same 0/1 row
\* (position i is 1 iff label i is active for the word); without it, only
\* the first token of a word has a 0/1 row and every later token of the word
\* has an all-IGNORE row
C2_ContinuationPolicy ==
    aligned =>
        \A t \in Tokens : HasWord(t) =>
            IF label_all_tokens
            THEN /\ RowOfWord(t, label_ids[t])
                 /\ \A s \in Tokens :
                        word_ids[s] = word_ids[t] => label_ids[s] = label_ids[t]
            ELSE IF FirstOfWord(t)
                 THEN RowOfWord(t, label_ids[t])
                 ELSE RowAllIgnore(label_ids[t])

\* a word of two pieces with an active label, aligned under suppression
C2_Witness ==
    /\ aligned /\ ~label_all_tokens
    /\ \E s, t \in Tokens :
        /\ s < t /\ HasWord(t) /\ word_ids[s] = word_ids[t]
        /\ label[word_ids[t] + 1] # {}
        /\ RowAllBinary(label_ids[s]) /\ RowAllIgnore(label_ids[t])

\* C3: under label_all_tokens (L >= 1) a row is all-IGNORE exactly when its
\* token has no source word; a word with no active label gets an all-0 row
C3_IgnoreIffStructural ==
    (aligned /\ label_all_tokens) =>
        \A t \in Tokens :
            /\ RowAllIgnore(label_ids[t]) <=> ~HasWord(t)
            /\ (HasWord(t) /\ label[word_ids[t] + 1] = {}) =>
                    \A i \in 1..label_count : label_ids[t][i] = 0

\* a structural token next to a token of a word with no active label
C3_Witness ==
    /\ aligned /\ label_all_tokens
    /\ \E t \in Tokens : ~HasWord(t) /\ RowAllIgnore(label_ids[t])
    /\ \E t \in Tokens :
        /\ HasWord(t) /\ label[word_ids[t] + 1] = {}
        /\ \A i \in 1..label_count : label_ids[t][i] = 0

\* an evaluation batch (of either evaluation loop) has just been thresholded
EvalStepDone == pc \in {"eval", "report"} /\ todo # 1..Len(eval_data)

\* C4 as stated: a scored token's label is predicted active iff its logit
\* is >= 0
C4_BoundaryActive ==
    EvalStepDone =>
        /\ Len(pred) = Len(flat_outputs)
        /\ \A r \in 1..Len(pred) : \A i \in 1..label_count :
              pred[r][i] = 1 <=> flat_outputs[r][i] >= 0

\* C4 amended: a scored token's label is predicted active iff its logit is
\* > 0; a logit of exactly 0 yields prediction 0
C4_BoundaryInactive ==
    EvalStepDone =>
        /\ Len(pred) = Len(flat_outputs)
        /\ \A r \in 1..Len(pred) : \A i \in 1..label_count :
              /\ pred[r][i] \in {0, 1}
              /\ pred[r][i] = 1 <=> flat_outputs[r][i] > 0

\* a scored row of the per-epoch evaluation with a logit of exactly 0,
\* predicted inactive, next to a positive and a negative logit
C4_Witness ==
    /\ EvalStepDone /\ pc = "eval"
    /\ \E r \in 1..Len(pred) : \E i, j, k \in 1..label_count :
        /\ flat_outputs[r][i] = 0 /\ pred[r][i] = 0
        /\ flat_outputs[r][j] > 0 /\ pred[r][j] = 1
        /\ flat_outputs[r][k] < 0 /\ pred[r][k] = 0

\* the training step of the current batch is past line 88
PastLoss == pc \in {"backward", "optimizer", "scheduler", "zero_grad", "accumulate"}

\* C5: for a training batch whose rows are all IGNORE the scored-row set is
\* empty and no loss is computed over it: the step is skipped, or goes on
\* with a loss of zero
C5_EmptyBatchNoLoss ==
    (PastLoss /\ \A t \in 1..Len(labels) : RowAllIgnore(labels[t])) =>
        /\ flat_labels = << >>
        /\ loss = 0

RECURSIVE ScoredRows(_, _)
ScoredRows(rows, lbls) ==
    IF rows = << >> THEN << >>
    ELSE IF RowAllIgnore(Head(lbls))
         THEN ScoredRows(Tail(rows), Tail(lbls))
         ELSE <<Head(rows)>> \o ScoredRows(Tail(rows), Tail(lbls))

MaskDone == pc = "loss" \/ (pc \in {"eval", "report"} /\ todo = {})

\* C7: for every label matrix over {0, 1, IGNORE}, mixed rows included, the
\* mask marks a row as scored iff it is not all-IGNORE, and the flattened
\* logits and labels are exactly the scored rows, in token order
C7_MaskIffNotAllIgnore ==
    MaskDone =>
        /\ Len(ignore_index) = Len(labels)
        /\ \A t \in 1..Len(labels) :
              ignore_index[t] # IGNORE <=> ~RowAllIgnore(labels[t])
        /\ flat_labels = ScoredRows(labels, labels)
        /\ flat_outputs = ScoredRows(logits, labels)
        /\ Len(flat_outputs) = Len(flat_labels)

\* a matrix with an all-IGNORE row and a row mixing IGNORE with a label
C7_Witness ==
    /\ MaskDone
    /\ \E t \in 1..Len(labels) : RowAllIgnore(labels[t])
    /\ \E t \in 1..Len(labels) :
          /\ ~RowValid(labels[t]) /\ labels[t][1] = IGNORE
          /\ ignore_index[t] # IGNORE
    /\ Len(flat_labels) = 1

RECURSIVE SumLosses(_)
SumLosses(s) ==
    IF s = << >> THEN 0 ELSE AddLoss(Head(s), SumLosses(Tail(s)))

\* C8: at the end of an epoch the running loss is the sum over the epoch's
\* batches of step loss x examples, and the epoch loss is that sum over the
\* number of training batches (stated for the epochs in which no step loss
\* is nan)
C8_RunningLossIsEpochSum ==
    (pc = "eval" /\ \A k \in 1..Len(step_losses) : step_losses[k] # NaN) =>
        /\ Len(step_losses) = Len(train_data)
        /\ running_loss = SumLosses(step_losses)
        /\ epoch_loss = <<SumLosses(step_losses), Len(train_data)>>

\* C9: in inference mode nothing writes the parameters, the gradients, the
\* optimizer or the schedule; every step of the training loop, in every
\* epoch, runs in training mode
C9_EvalLeavesParameters ==
    [][ /\ mode = "eval" => UNCHANGED <<params, grads, opt_steps, sched_steps>>
        /\ params' # params => (mode = "train" /\ pc = "optimizer")
        /\ (pc \in {"mask", "loss"} \/ PastLoss) => mode = "train"
        /\ pc = "eval" => mode = "eval" ]_vars

\* the optimizer has just stepped in an epoch after the first one, whose
\* evaluation pass left the parameters of the first epoch in place
C9_Witness ==
    /\ epoch >= 1 /\ pc = "scheduler" /\ mode = "train"
    /\ params = epoch * Len(train_data) + 1

StepOrder ==
    <<"forward", "loss", "backward", "optimizer.step", "lr_scheduler.step",
      "zero_grad">>

IsPrefix(s, t) == Len(s) <= Len(t) /\ \A i \in 1..Len(s) : s[i] = t[i]

Batches == Len(train_data)

\* C10: every batch goes through forward, loss, backward, optimizer step,
\* schedule advance, gradient clear, in this order; the training batches of
\* an epoch are all done before its evaluation pass; the run ends after N
\* epochs with N x B optimizer steps and schedule advances, the step count
\* the schedule was configured with
C10_StepOrderAndCounts ==
    /\ IsPrefix(ops, StepOrder)
    /\ pc = "accumulate" => ops = StepOrder
    /\ pc = "fetch" =>
          /\ ops \in {<< >>, StepOrder}
          /\ opt_steps = epoch * Batches + (Batches - Cardinality(todo))
          /\ sched_steps = opt_steps
    /\ pc = "eval" =>
          /\ opt_steps = (epoch + 1) * Batches
          /\ sched_steps = opt_steps
    /\ epoch <= num_epochs
    /\ opt_steps <= num_training_steps
    /\ pc \in {"done", "report", "reported"} =>
          /\ saved /\ epoch = num_epochs
          /\ opt_steps = num_epochs * Batches
          /\ sched_steps = num_epochs * Batches
          /\ num_training_steps = num_epochs * Batches
    /\ pc # "reported" => ENABLED Next

\* a finished run of two epochs over two batches
C10_Witness ==
    /\ pc = "done" /\ num_epochs = 2 /\ Batches = 2
    /\ opt_steps = 4 /\ sched_steps = 4 /\ ops = StepOrder

\* under FairSpec the training run reaches its end
Terminates == <>(pc = "done")

====
